---- MODULE Spec2Model ----
(***************************************************************************)
(* A model of the routine generator of app.py.                             *)
(*                                                                         *)
(* Spec, SpecWide and SpecDefensive are one execution of the body of       *)
(* generate_schedule_from_components (input validation, task expansion,    *)
(* shuffle, the naive placement loop, and the final sort), with the        *)
(* catalog, the room pools, the working days and the daily window drawn    *)
(* from small sets in Init.  SpecUI is the page: the forms and buttons     *)
(* that edit st.session_state, and 'Create Routine', which stores the      *)
(* frame the function returns.                                             *)
(*                                                                         *)
(* Python lists are sequences (index i of the code is index i+1 here),     *)
(* dicts keyed by day are functions over the working days, and a           *)
(* datetime.time is a record [hour, minute].  Component titles are carried *)
(* through the code unchanged next to the course code and are left out.    *)
(***************************************************************************)
EXTENDS Integers, Sequences, FiniteSets, TLC

VARIABLES
    class_components,          \* argument (st.session_state.class_components)
    classrooms,                \* argument (st.session_state.classrooms)
    labs,                      \* argument (st.session_state.labs)
    working_days,              \* argument (st.session_state.working_days_config)
    start_time_obj,            \* argument (st.session_state.start_time_config)
    end_time_obj,              \* argument (st.session_state.end_time_config)
    pc,                        \* position in the function body
    tasks_to_schedule,         \* list of task dicts
    task_idx,                  \* position of `for task in tasks_to_schedule`
    attempt,                   \* iterations of `for _ in range(len(working_days))` done
    assigned,                  \* the loop's `assigned` flag
    current_slot_time_per_day, \* day -> next start minute
    day_index_counter,         \* day -> counter
    schedule_entries,          \* rows appended so far
    messages,                  \* st.error / st.warning / st.info calls made
    result,                    \* the returned DataFrame, as its list of rows
    semesters,                 \* st.session_state.semesters
    sections,                  \* st.session_state.sections: semester -> sorted list
    schedule_df                \* st.session_state.schedule_df: None or the stored rows

inputs == <<class_components, classrooms, labs, working_days, start_time_obj, end_time_obj>>
vars == <<class_components, classrooms, labs, working_days, start_time_obj, end_time_obj,
          pc, tasks_to_schedule, task_idx, attempt, assigned,
          current_slot_time_per_day, day_index_counter, schedule_entries,
          messages, result, semesters, sections, schedule_df>>
session == <<semesters, sections, schedule_df>>
run_locals == <<pc, tasks_to_schedule, task_idx, attempt, assigned,
                current_slot_time_per_day, day_index_counter, schedule_entries, messages>>

----------------------------------------------------------------------------
(* Bounds and value domains of the inputs.                                 *)

MaxTasks == 3
MaxDays == 2

None == "None"
AnyLab == "Any Available Lab"
NotReturned == "NotReturned"

DayNames == <<"Sunday", "Monday", "Tuesday", "Wednesday", "Thursday">>
WorkingDayChoices == {SubSeq(DayNames, 1, n) : n \in 0..MaxDays}
ClassroomPools == {<<>>, <<"C101", "C102">>}
LabPools == {<<>>, <<"L501">>, <<"L501", "L502">>}
SpecificLabs == {"L502"}
CourseCodes == <<"CSE101", "CSE102">>
SemesterNames == <<"S1", "S2">>
SectionNames == <<"A", "A_0", "B">>
SectionLists == {<<"A">>, <<"A", "B">>}
SessionCounts == {1, 2}
Durations == {20, 30}
CatalogSizes == {0, 1, 2}
StartTimes == {[hour |-> 8, minute |-> 0]}
EndTimes == {[hour |-> 8, minute |-> 15], [hour |-> 8, minute |-> 45]}

Range(s) == {s[i] : i \in DOMAIN s}

RECURSIVE SumOver(_, _)
SumOver(S, f) ==
    IF S = {} THEN 0
    ELSE LET x == CHOOSE y \in S : TRUE IN f[x] + SumOver(S \ {x}, f)

----------------------------------------------------------------------------
(* Helper functions of app.py.                                             *)

\* a missing time (Python None) is the record NoTime.
NoTime == [hour |-> -1, minute |-> -1]

time_to_minutes(time_obj) ==
    IF time_obj = NoTime THEN 0 ELSE time_obj.hour * 60 + time_obj.minute

format_time_slotMutant(start_minute, duration_minute) ==
    <<start_minute \div 60, start_minute % 60, start_minute \div 60, start_minute % 60>>
format_time_slot(start_minute, duration_minute) ==
    LET end_minute == start_minute + duration_minute
    IN  <<start_minute \div 60, start_minute % 60, end_minute \div 60, end_minute % 60>>

StartMinutesVal == time_to_minutes(start_time_obj)
EndMinutesVal == time_to_minutes(end_time_obj)

----------------------------------------------------------------------------
(* Input validation (lines 57-71).                                         *)

needs_theory_room == \E i \in DOMAIN class_components : class_components[i].class_type = "Theory"

needs_lab_room_any ==
    \E i \in DOMAIN class_components :
        /\ class_components[i].class_type = "Lab"
        /\ class_components[i].assigned_room = AnyLab

MissingInputs == class_components = <<>> \/ working_days = <<>>
NoClassrooms == needs_theory_room /\ classrooms = <<>>
NoLabsMutant == FALSE
NoLabs == needs_lab_room_any /\ labs = <<>>

InputErrorText ==
    IF MissingInputs THEN "Missing class components or working days"
    ELSE IF NoClassrooms THEN "Theory components exist, but no Classrooms"
    ELSE IF NoLabs THEN "Lab components need Any Available Lab, but no Lab rooms"
    ELSE None

----------------------------------------------------------------------------
(* Task expansion (lines 77-91).                                           *)

\* line 83: f"{comp['id']}_{section}_{session_num}"; a component id is a
\* uuid4 string (line 489), which has no underscore, here a decimal numeral.
task_id(comp, section, session_num) ==
    ToString(comp.id) \o "_" \o section \o "_" \o ToString(session_num)

Task(comp, section, session_num) ==
    [course_code |-> comp.course_code,
     semester |-> comp.semester,
     section |-> section,
     class_type |-> comp.class_type,
     duration_minutes |-> comp.duration_minutes,
     assigned_room |-> comp.assigned_room,
     task_id |-> task_id(comp, section, session_num)]

SessionsOfMutant(comp, section) ==
    [k \in 1..(comp.sessions_per_week - 1) |-> Task(comp, section, k - 1)]
SessionsOf(comp, section) ==
    [k \in 1..comp.sessions_per_week |-> Task(comp, section, k - 1)]

RECURSIVE SectionsFrom(_, _)
SectionsFrom(comp, i) ==
    IF i > Len(comp.sections) THEN <<>>
    ELSE SessionsOf(comp, comp.sections[i]) \o SectionsFrom(comp, i + 1)

RECURSIVE ExpandFrom(_, _)
ExpandFrom(comps, i) ==
    IF i > Len(comps) THEN <<>>
    ELSE SectionsFrom(comps[i], 1) \o ExpandFrom(comps, i + 1)

ExpandTasks(comps) == ExpandFrom(comps, 1)

----------------------------------------------------------------------------
(* One iteration of the placement loop (lines 108-160).                    *)

Buffer == 5

AttemptsPerTaskMutant == Len(working_days) + 1
AttemptsPerTask == Len(working_days)

CurrentDay(ctr) == working_days[(ctr[working_days[1]] % Len(working_days)) + 1]

BumpCounter(ctr) == [ctr EXCEPT ![working_days[1]] = @ + 1]

\* the day's next start without the buffer.
NextSlotTimeMutant(slot_end) == slot_end

\* line 152: the day's next start, "Add 5 min buffer".
NextSlotTime(slot_end) == slot_end + Buffer

FitsMutant(slot_start, slot_end) == slot_start <= EndMinutesVal
Fits(slot_start, slot_end) == slot_end <= EndMinutesVal

RoomFor(task, ctr, day) ==
    IF task.class_type = "Theory"
    THEN IF classrooms # <<>>
         THEN classrooms[(ctr[day] % Len(classrooms)) + 1]
         ELSE None
    ELSE IF task.class_type = "Lab"
    THEN IF task.assigned_room # None /\ task.assigned_room # AnyLab
         THEN task.assigned_room
         ELSE IF labs # <<>>
              THEN labs[(ctr[day] % Len(labs)) + 1]
              ELSE None
    ELSE None

Row(task, day, slot_start, slot_end, room) ==
    [Day |-> day,
     Time_Slot |-> format_time_slot(slot_start, task.duration_minutes),
     Start_Minute |-> slot_start,
     End_Minute |-> slot_end,
     Semester |-> task.semester,
     Section |-> task.section,
     Course_Code |-> task.course_code,
     Room |-> room,
     Type |-> task.class_type,
     Component_ID |-> task.task_id]

\* st = [times, ctr, entries, assigned]: the loop's dictionaries and list.
TryDay(st, task) ==
    LET day == CurrentDay(st.ctr)
        ctr == BumpCounter(st.ctr)
        slot_start == st.times[day]
        slot_end == slot_start + task.duration_minutes
        room == RoomFor(task, ctr, day)
    IN  IF Fits(slot_start, slot_end) /\ room # None
        THEN [times |-> [st.times EXCEPT ![day] = NextSlotTime(slot_end)],
              ctr |-> ctr,
              entries |-> Append(st.entries, Row(task, day, slot_start, slot_end, room)),
              assigned |-> TRUE]
        ELSE [times |-> IF slot_end > EndMinutesVal
                        THEN [st.times EXCEPT ![day] = StartMinutesVal]
                        ELSE st.times,
              ctr |-> ctr,
              entries |-> st.entries,
              assigned |-> FALSE]

UnplacedWarning(task) ==
    [level |-> "warning", text |-> <<"Could not place task", task.course_code, task.section>>]

ReportUnplacedMutant(msgs, task) == msgs
ReportUnplaced(msgs, task) == Append(msgs, UnplacedWarning(task))

\* lines 108-160 for one task: up to `left` passes, left at the first placement.
RECURSIVE TryDays(_, _, _)
TryDays(st, task, left) ==
    IF left = 0 THEN st
    ELSE LET r == TryDay(st, task)
         IN  IF r.assigned THEN r ELSE TryDays(r, task, left - 1)

\* lines 105-165: the tasks from position i on, in the order given.
RECURSIVE PlaceFrom(_, _, _)
PlaceFrom(st, tasks, i) ==
    IF i > Len(tasks) THEN st
    ELSE PlaceFrom(TryDays([st EXCEPT !.assigned = FALSE], tasks[i], AttemptsPerTask),
                   tasks, i + 1)

\* lines 102-165: the dictionaries set up, then the loop over the tasks.
RunInGivenOrder(tasks) ==
    PlaceFrom([times |-> [d \in Range(working_days) |-> StartMinutesVal],
               ctr |-> [d \in Range(working_days) |-> 0],
               entries |-> <<>>,
               assigned |-> FALSE], tasks, 1)

----------------------------------------------------------------------------
(* The final sort (lines 174-182): a stable sort on the five key columns.  *)

Index(seq, x) == CHOOSE i \in DOMAIN seq : seq[i] = x

SortKeyMutant(row) ==
    <<Index(SemesterNames, row.Semester), Index(DayNames, row.Day), row.Start_Minute,
      Index(SectionNames, row.Section), Index(CourseCodes, row.Course_Code)>>
SortKey(row) ==
    <<Index(SemesterNames, row.Semester), Index(working_days, row.Day), row.Start_Minute,
      Index(SectionNames, row.Section), Index(CourseCodes, row.Course_Code)>>

RECURSIVE LexLess(_, _, _)
LexLess(a, b, i) ==
    IF i > Len(a) THEN FALSE
    ELSE IF a[i] # b[i] THEN a[i] < b[i]
    ELSE LexLess(a, b, i + 1)

KeyLess(r1, r2) == LexLess(SortKey(r1), SortKey(r2), 1)

\* insert row after every row whose key is not greater (stable).
RECURSIVE InsertRow(_, _)
InsertRow(sorted, row) ==
    IF sorted = <<>> THEN <<row>>
    ELSE IF KeyLess(row, Head(sorted)) THEN <<row>> \o sorted
    ELSE <<Head(sorted)>> \o InsertRow(Tail(sorted), row)

RECURSIVE SortRows(_, _)
SortRows(rows, i) ==
    IF i = 0 THEN <<>> ELSE InsertRow(SortRows(rows, i - 1), rows[i])

sort_values(rows) == SortRows(rows, Len(rows))

----------------------------------------------------------------------------
(* The inputs.                                                             *)

ComponentShapes ==
    {c \in [semester : {SemesterNames[1]},
            sections : SectionLists, class_type : {"Theory", "Lab"},
            sessions_per_week : SessionCounts, duration_minutes : Durations,
            assigned_room : {None, AnyLab} \cup SpecificLabs] :
        (c.class_type = "Theory") = (c.assigned_room = None)}

\* the i-th component of a catalog: its unique id and its course code.
WithIds(shapes) ==
    [i \in DOMAIN shapes |->
        [id |-> i,
         course_code |-> CourseCodes[IF i <= Len(CourseCodes) THEN i ELSE 1],
         semester |-> shapes[i].semester,
         sections |-> shapes[i].sections,
         class_type |-> shapes[i].class_type,
         sessions_per_week |-> shapes[i].sessions_per_week,
         duration_minutes |-> shapes[i].duration_minutes,
         assigned_room |-> shapes[i].assigned_room]]

TaskCount(comps) ==
    SumOver(DOMAIN comps, [i \in DOMAIN comps |-> Len(comps[i].sections) * comps[i].sessions_per_week])

Catalogs ==
    {WithIds(s) : s \in {t \in UNION {[1..n -> ComponentShapes] : n \in CatalogSizes} :
                            TaskCount(t) <= MaxTasks}}

Init ==
    /\ class_components \in Catalogs
    /\ classrooms \in ClassroomPools
    /\ labs \in LabPools
    /\ working_days \in WorkingDayChoices
    /\ start_time_obj \in StartTimes
    /\ end_time_obj \in EndTimes
    /\ pc = "start"
    /\ tasks_to_schedule = <<>>
    /\ task_idx = 0
    /\ attempt = 0
    /\ assigned = FALSE
    /\ current_slot_time_per_day = <<>>
    /\ day_index_counter = <<>>
    /\ schedule_entries = <<>>
    /\ messages = <<>>
    /\ result = NotReturned
    /\ semesters = <<>>
    /\ sections = <<>>
    /\ schedule_df = None

----------------------------------------------------------------------------
(* The steps of generate_schedule_from_components.                         *)

\* lines 57-71: the three early returns.
CheckInputs ==
    /\ pc = "start"
    /\ IF InputErrorText # None
       THEN /\ messages' = Append(messages, [level |-> "error", text |-> InputErrorText])
            /\ result' = <<>>
            /\ pc' = "done"
       ELSE /\ pc' = "expand"
            /\ UNCHANGED <<messages, result>>
    /\ UNCHANGED <<inputs, tasks_to_schedule, task_idx, attempt, assigned,
                   current_slot_time_per_day, day_index_counter, schedule_entries>>
    /\ UNCHANGED session

\* lines 73-91.
Expand ==
    /\ pc = "expand"
    /\ tasks_to_schedule' = ExpandTasks(class_components)
    /\ pc' = "shuffle"
    /\ UNCHANGED <<inputs, task_idx, attempt, assigned, current_slot_time_per_day,
                   day_index_counter, schedule_entries, messages, result>>
    /\ UNCHANGED session

\* the shuffle applied in place to the caller's component list.
ShuffleMutant ==
    /\ pc = "shuffle"
    /\ \E p \in Permutations(DOMAIN class_components) :
          class_components' = [i \in DOMAIN class_components |-> class_components[p[i]]]
    /\ current_slot_time_per_day' = [d \in Range(working_days) |-> StartMinutesVal]
    /\ day_index_counter' = [d \in Range(working_days) |-> 0]
    /\ task_idx' = 1
    /\ attempt' = 0
    /\ assigned' = FALSE
    /\ pc' = "loop"
    /\ UNCHANGED <<classrooms, labs, working_days, start_time_obj, end_time_obj,
                   tasks_to_schedule, schedule_entries, messages, result>>
    /\ UNCHANGED session

\* lines 100-103: random.shuffle leaves any permutation; the dictionaries are set up.
Shuffle ==
    /\ pc = "shuffle"
    /\ \E p \in Permutations(DOMAIN tasks_to_schedule) :
          tasks_to_schedule' = [i \in DOMAIN tasks_to_schedule |-> tasks_to_schedule[p[i]]]
    /\ current_slot_time_per_day' = [d \in Range(working_days) |-> StartMinutesVal]
    /\ day_index_counter' = [d \in Range(working_days) |-> 0]
    /\ task_idx' = 1
    /\ attempt' = 0
    /\ assigned' = FALSE
    /\ pc' = "loop"
    /\ UNCHANGED <<inputs, schedule_entries, messages, result>>
    /\ UNCHANGED session

\* line 105: the outer loop has a task to process, or is over.
LoopRunning == pc = "loop" /\ task_idx <= Len(tasks_to_schedule)
LoopOver == pc = "loop" /\ task_idx > Len(tasks_to_schedule)

\* lines 108 and 154: the inner loop has a pass left, or is left.
InnerLoopRunning == LoopRunning /\ ~assigned /\ attempt < AttemptsPerTask
InnerLoopOver == LoopRunning /\ (assigned \/ attempt >= AttemptsPerTask)

\* lines 108-160: one pass of the inner loop for the current task.
Attempt ==
    /\ InnerLoopRunning
    /\ LET r == TryDay([times |-> current_slot_time_per_day, ctr |-> day_index_counter,
                        entries |-> schedule_entries, assigned |-> assigned],
                       tasks_to_schedule[task_idx])
       IN  /\ current_slot_time_per_day' = r.times
           /\ day_index_counter' = r.ctr
           /\ schedule_entries' = r.entries
           /\ assigned' = r.assigned
    /\ attempt' = attempt + 1
    /\ UNCHANGED <<inputs, pc, tasks_to_schedule, task_idx, messages, result>>
    /\ UNCHANGED session

\* lines 154 and 162-165: leave the inner loop, warn if unplaced, next task.
EndOfTask ==
    /\ InnerLoopOver
    /\ messages' = IF assigned THEN messages
                   ELSE ReportUnplaced(messages, tasks_to_schedule[task_idx])
    /\ task_idx' = task_idx + 1
    /\ attempt' = 0
    /\ assigned' = FALSE
    /\ UNCHANGED <<inputs, pc, tasks_to_schedule, current_slot_time_per_day,
                   day_index_counter, schedule_entries, result>>
    /\ UNCHANGED session

\* lines 170-182.
Finish ==
    /\ LoopOver
    /\ IF schedule_entries = <<>>
       THEN /\ messages' = Append(messages, [level |-> "info", text |-> "no schedule entries"])
            /\ result' = <<>>
       ELSE /\ result' = sort_values(schedule_entries)
            /\ UNCHANGED messages
    /\ pc' = "done"
    /\ UNCHANGED <<inputs, tasks_to_schedule, task_idx, attempt, assigned,
                   current_slot_time_per_day, day_index_counter, schedule_entries>>
    /\ UNCHANGED session

Next == CheckInputs \/ Expand \/ Shuffle \/ Attempt \/ EndOfTask \/ Finish

Spec == Init /\ [][Next]_vars

----------------------------------------------------------------------------
(* The same run on catalogs with two semesters, free course codes, section *)
(* names with an underscore, and the working days selected in either       *)
(* order (a multiselect returns the days in the order they were picked).   *)

WideSectionLists == {<<"A">>, <<"A_0", "A">>, <<"B", "A">>}
WideWorkingDays == {<<"Sunday", "Monday">>, <<"Monday", "Sunday">>}
WideEndTimes == {[hour |-> 8, minute |-> 45]}

WideShapes ==
    {c \in [course_code : Range(CourseCodes), semester : Range(SemesterNames),
            sections : WideSectionLists, class_type : {"Theory", "Lab"},
            sessions_per_week : SessionCounts, duration_minutes : {20},
            assigned_room : {None, AnyLab}] :
        (c.class_type = "Theory") = (c.assigned_room = None)}

WithIdsOnly(shapes) ==
    [i \in DOMAIN shapes |->
        [id |-> i,
         course_code |-> shapes[i].course_code,
         semester |-> shapes[i].semester,
         sections |-> shapes[i].sections,
         class_type |-> shapes[i].class_type,
         sessions_per_week |-> shapes[i].sessions_per_week,
         duration_minutes |-> shapes[i].duration_minutes,
         assigned_room |-> shapes[i].assigned_room]]

WideCatalogs ==
    {WithIdsOnly(s) : s \in {t \in UNION {[1..n -> WideShapes] : n \in {1, 2}} :
                                TaskCount(t) <= MaxTasks}}

InitWide ==
    /\ class_components \in WideCatalogs
    /\ classrooms = <<"C101", "C102">>
    /\ labs = <<"L501">>
    /\ working_days \in WideWorkingDays
    /\ start_time_obj \in StartTimes
    /\ end_time_obj \in WideEndTimes
    /\ pc = "start"
    /\ tasks_to_schedule = <<>>
    /\ task_idx = 0
    /\ attempt = 0
    /\ assigned = FALSE
    /\ current_slot_time_per_day = <<>>
    /\ day_index_counter = <<>>
    /\ schedule_entries = <<>>
    /\ messages = <<>>
    /\ result = NotReturned
    /\ semesters = <<>>
    /\ sections = <<>>
    /\ schedule_df = None

SpecWide == InitWide /\ [][Next]_vars

----------------------------------------------------------------------------
(* The same run called with a catalog the forms never store: a component   *)
(* with an empty section list or with zero sessions a week (the function   *)
(* takes any list of dicts).                                               *)

Degenerate(comp) == comp.sections = <<>> \/ comp.sessions_per_week = 0

AnyShapes ==
    {c \in [semester : {SemesterNames[1]},
            sections : {<<>>, <<"A">>}, class_type : {"Theory", "Lab"},
            sessions_per_week : {0, 1}, duration_minutes : Durations,
            assigned_room : {None, AnyLab}] :
        (c.class_type = "Theory") = (c.assigned_room = None)}

DegenerateCatalogs ==
    {WithIds(s) : s \in {t \in UNION {[1..n -> AnyShapes] : n \in {1, 2}} :
                            \E i \in DOMAIN t : Degenerate(t[i])}}

InitDefensive ==
    /\ class_components \in DegenerateCatalogs
    /\ classrooms \in ClassroomPools
    /\ labs \in LabPools
    /\ working_days \in WorkingDayChoices
    /\ start_time_obj \in StartTimes
    /\ end_time_obj \in EndTimes
    /\ pc = "start"
    /\ tasks_to_schedule = <<>>
    /\ task_idx = 0
    /\ attempt = 0
    /\ assigned = FALSE
    /\ current_slot_time_per_day = <<>>
    /\ day_index_counter = <<>>
    /\ schedule_entries = <<>>
    /\ messages = <<>>
    /\ result = NotReturned
    /\ semesters = <<>>
    /\ sections = <<>>
    /\ schedule_df = None

SpecDefensive == InitDefensive /\ [][Next]_vars

----------------------------------------------------------------------------
(* The session: the forms and buttons of the page (lines 188-586) acting   *)
(* on st.session_state.  Every script run executes at most one handler,    *)
(* and a handler runs to its end (st.rerun) before the next interaction.   *)
(* 'Create Routine' calls generate_schedule_from_components on the session *)
(* values; st.cache_data may answer a repeated call from its cache, which  *)
(* is one of the results the call can return for those arguments.          *)

\* at most UIMaxTasks tasks are entered (the forms set no limit).
UIMaxTasks == 2

UISemesters == {"S1", "S2"}
UISectionInputs == {<<"A">>, <<"B">>, <<"B", "A">>}
UIClassroomInputs == {<<"C101">>}
UILabInputs == {<<"L501">>}
UICourseCodes == {"CSE101"}
UISessionCounts == {1}
UIDurations == {30}
UIComponentIds == {1, 2}
UIWorkingDays == {<<>>, DayNames}
UIEndTimes == {[hour |-> 17, minute |-> 0]}

\* `for r in names: if r not in list: list.append(r)`
RECURSIVE AppendNew(_, _, _)
AppendNew(list, names, i) ==
    IF i > Len(names) THEN list
    ELSE AppendNew(IF names[i] \in Range(list) THEN list ELSE Append(list, names[i]),
                   names, i + 1)

\* list.remove(x) on a list without duplicates.
Remove(list, x) == SelectSeq(list, LAMBDA y : y # x)

\* list.sort() on section names.
Sorted(list) ==
    CHOOSE s \in [1..Len(list) -> Range(list)] :
        /\ Range(s) = Range(list)
        /\ \A i, j \in DOMAIN s :
              i < j => Index(SectionNames, s[i]) < Index(SectionNames, s[j])

\* the non-empty selections of a multiselect, in the order of its options.
Selections(options) ==
    {SelectSeq(options, LAMBDA x : x \in S) : S \in (SUBSET Range(options)) \ {{}}}

\* lines 381-400: drop the removed sections from the semester's components and
\* drop the components left without a section.
ProcessComponents(comps, sem, secs) ==
    LET updated == [i \in DOMAIN comps |->
                       IF comps[i].semester = sem
                       THEN [comps[i] EXCEPT !.sections =
                                SelectSeq(@, LAMBDA x : x \notin Range(secs))]
                       ELSE comps[i]]
    IN  SelectSeq(updated, LAMBDA c : c.semester # sem \/ c.sections # <<>>)

\* the guard without its check of the lab pool.
ready_to_generateMutant ==
    /\ class_components # <<>>
    /\ working_days # <<>>
    /\ ~(needs_theory_room /\ classrooms = <<>>)

\* lines 549-570.
ready_to_generate ==
    /\ class_components # <<>>
    /\ working_days # <<>>
    /\ ~(needs_theory_room /\ classrooms = <<>>)
    /\ ~(needs_lab_room_any /\ labs = <<>>)

\* the frame generate_schedule_from_components returns when its shuffle leaves `order`.
GenerateWith(order) ==
    IF InputErrorText # None THEN <<>>
    ELSE LET entries == RunInGivenOrder(order).entries
         IN  IF entries = <<>> THEN <<>> ELSE sort_values(entries)

InitUI ==
    /\ semesters = <<>>
    /\ sections = <<>>
    /\ class_components = <<>>
    /\ classrooms = <<>>
    /\ labs = <<>>
    /\ schedule_df = None
    /\ working_days = DayNames
    /\ start_time_obj = [hour |-> 8, minute |-> 0]
    /\ end_time_obj = [hour |-> 17, minute |-> 0]
    /\ pc = "idle"
    /\ tasks_to_schedule = <<>>
    /\ task_idx = 0
    /\ attempt = 0
    /\ assigned = FALSE
    /\ current_slot_time_per_day = <<>>
    /\ day_index_counter = <<>>
    /\ schedule_entries = <<>>
    /\ messages = <<>>
    /\ result = NotReturned

\* lines 206-211: the sidebar's calendar widgets.
Configure ==
    /\ working_days' \in UIWorkingDays
    /\ start_time_obj' \in StartTimes
    /\ end_time_obj' \in UIEndTimes
    /\ UNCHANGED <<class_components, classrooms, labs, run_locals, result, session>>

\* lines 214-226.
AddClassrooms ==
    /\ \E names \in UIClassroomInputs : classrooms' = AppendNew(classrooms, names, 1)
    /\ schedule_df' = None
    /\ UNCHANGED <<class_components, labs, working_days, start_time_obj, end_time_obj,
                   run_locals, result, semesters, sections>>

\* lines 229-241.
RemoveClassroom ==
    /\ \E room \in Range(classrooms) : classrooms' = Remove(classrooms, room)
    /\ schedule_df' = None
    /\ UNCHANGED <<class_components, labs, working_days, start_time_obj, end_time_obj,
                   run_locals, result, semesters, sections>>

\* lines 246-258.
AddLabs ==
    /\ \E names \in UILabInputs : labs' = AppendNew(labs, names, 1)
    /\ schedule_df' = None
    /\ UNCHANGED <<class_components, classrooms, working_days, start_time_obj,
                   end_time_obj, run_locals, result, semesters, sections>>

\* lines 261-272: the components naming the lab are left as they are.
RemoveLab ==
    /\ \E lab \in Range(labs) : labs' = Remove(labs, lab)
    /\ schedule_df' = None
    /\ UNCHANGED <<class_components, classrooms, working_days, start_time_obj,
                   end_time_obj, run_locals, result, semesters, sections>>

\* lines 276-284.
ClearAll ==
    /\ semesters' = <<>>
    /\ sections' = <<>>
    /\ class_components' = <<>>
    /\ classrooms' = <<>>
    /\ labs' = <<>>
    /\ schedule_df' = None
    /\ UNCHANGED <<working_days, start_time_obj, end_time_obj, run_locals, result>>

\* lines 293-303.
AddSemester ==
    /\ \E new \in UISemesters \ Range(semesters) :
          /\ semesters' = Append(semesters, new)
          /\ sections' = [s \in DOMAIN sections \cup {new} |->
                             IF s = new THEN <<>> ELSE sections[s]]
    /\ schedule_df' = None
    /\ UNCHANGED <<inputs, run_locals, result>>

RemoveSemesterMutant(sem) ==
    /\ sem \in Range(semesters)
    /\ semesters' = Remove(semesters, sem)
    /\ sections' = [s \in DOMAIN sections \ {sem} |-> sections[s]]
    /\ schedule_df' = None
    /\ UNCHANGED <<inputs, run_locals, result>>
\* lines 306-331.
RemoveSemester(sem) ==
    /\ sem \in Range(semesters)
    /\ semesters' = Remove(semesters, sem)
    /\ sections' = [s \in DOMAIN sections \ {sem} |-> sections[s]]
    /\ class_components' = SelectSeq(class_components, LAMBDA comp : comp.semester # sem)
    /\ schedule_df' = None
    /\ UNCHANGED <<classrooms, labs, working_days, start_time_obj, end_time_obj,
                   run_locals, result>>

\* lines 338-358: nothing happens unless a new section was added.
AddSection ==
    /\ \E sem \in Range(semesters), names \in UISectionInputs :
          LET added == AppendNew(sections[sem], names, 1)
          IN  /\ added # sections[sem]
              /\ sections' = [sections EXCEPT ![sem] = Sorted(added)]
    /\ schedule_df' = None
    /\ UNCHANGED <<inputs, run_locals, result, semesters>>

\* lines 363-415.
RemoveSections ==
    /\ \E sem \in Range(semesters) :
          \E secs \in Selections(sections[sem]) :
              /\ sections' = [sections EXCEPT
                                ![sem] = SelectSeq(@, LAMBDA x : x \notin Range(secs))]
              /\ class_components' = ProcessComponents(class_components, sem, secs)
    /\ schedule_df' = None
    /\ UNCHANGED <<classrooms, labs, working_days, start_time_obj, end_time_obj,
                   run_locals, result, semesters>>

\* lines 434-498: the id is a fresh uuid4, here any id not in use.
AddComponent ==
    /\ \E id \in UIComponentIds \ {class_components[i].id : i \in DOMAIN class_components},
          cc_code \in UICourseCodes,
          cc_semester \in Range(semesters),
          cc_type \in {"Theory", "Lab"},
          cc_sessions_per_week \in UISessionCounts,
          cc_duration_minutes \in UIDurations :
          \E cc_sections \in Selections(sections[cc_semester]),
             assigned_room_option \in {AnyLab} \cup Range(labs) :
              /\ TaskCount(class_components) + Len(cc_sections) * cc_sessions_per_week
                    <= UIMaxTasks
              /\ class_components' = Append(class_components,
                  [id |-> id, course_code |-> cc_code, semester |-> cc_semester,
                   sections |-> cc_sections, class_type |-> cc_type,
                   sessions_per_week |-> cc_sessions_per_week,
                   duration_minutes |-> cc_duration_minutes,
                   assigned_room |-> IF cc_type = "Lab" THEN assigned_room_option ELSE None])
    /\ schedule_df' = None
    /\ UNCHANGED <<classrooms, labs, working_days, start_time_obj, end_time_obj,
                   run_locals, result, semesters, sections>>

RemoveComponentMutant(id) ==
    /\ \E i \in DOMAIN class_components : class_components[i].id = id
    /\ class_components' = SelectSeq(class_components, LAMBDA comp : comp.id # id)
    /\ UNCHANGED <<classrooms, labs, working_days, start_time_obj, end_time_obj,
                   run_locals, result, session>>
\* lines 517-540.
RemoveComponent(id) ==
    /\ \E i \in DOMAIN class_components : class_components[i].id = id
    /\ class_components' = SelectSeq(class_components, LAMBDA comp : comp.id # id)
    /\ schedule_df' = None
    /\ UNCHANGED <<classrooms, labs, working_days, start_time_obj, end_time_obj,
                   run_locals, result, semesters, sections>>

\* lines 579-586: the button is disabled unless ready_to_generate.
CreateRoutine ==
    /\ ready_to_generate
    /\ \E p \in Permutations(DOMAIN ExpandTasks(class_components)) :
          schedule_df' = GenerateWith([i \in DOMAIN p |-> ExpandTasks(class_components)[p[i]]])
    /\ UNCHANGED <<inputs, run_locals, result, semesters, sections>>

RemoveSomeSemester == \E sem \in UISemesters : RemoveSemester(sem)
RemoveSomeComponent == \E id \in UIComponentIds : RemoveComponent(id)

NextUI ==
    \/ Configure
    \/ AddClassrooms
    \/ RemoveClassroom
    \/ AddLabs
    \/ RemoveLab
    \/ ClearAll
    \/ AddSemester
    \/ RemoveSomeSemester
    \/ AddSection
    \/ RemoveSections
    \/ AddComponent
    \/ RemoveSomeComponent
    \/ CreateRoutine

SpecUI == InitUI /\ [][NextUI]_vars

----------------------------------------------------------------------------
(* Vocabulary of the properties.                                           *)

Returned == pc = "done"
RanToEnd == pc = "done" /\ InputErrorText = None
Rows == IF result = NotReturned THEN <<>> ELSE result

Overlap(r1, r2) == r1.Start_Minute < r2.End_Minute /\ r2.Start_Minute < r1.End_Minute

TaskOfRow(row) == CHOOSE t \in Range(tasks_to_schedule) : t.task_id = row.Component_ID

UnplacedReports == SelectSeq(messages, LAMBDA m : m.level = "warning")
ErrorReports == SelectSeq(messages, LAMBDA m : m.level = "error")

\* some placement attempt ran past the daily end, so a day's cursor was reset.
SomeOverlapSameDay ==
    \E i, j \in DOMAIN Rows :
        i < j /\ Rows[i].Day = Rows[j].Day /\ Overlap(Rows[i], Rows[j])

----------------------------------------------------------------------------
(* C1. No double-booking: in a returned schedule no two rows of the same   *)
(* room on the same day have overlapping intervals [Start, End).           *)
C1_NoDoubleBooking ==
    Returned =>
        \A i, j \in DOMAIN Rows :
            (i < j /\ Rows[i].Room = Rows[j].Room /\ Rows[i].Day = Rows[j].Day)
                => ~Overlap(Rows[i], Rows[j])

(* C2. No section conflict: in a returned schedule no two rows of the same *)
(* (semester, section) on the same day have overlapping intervals.         *)
C2_NoSectionConflict ==
    Returned =>
        \A i, j \in DOMAIN Rows :
            (/\ i < j
             /\ Rows[i].Semester = Rows[j].Semester
             /\ Rows[i].Section = Rows[j].Section
             /\ Rows[i].Day = Rows[j].Day)
                => ~Overlap(Rows[i], Rows[j])

InWindow(row) ==
    /\ row.Start_Minute >= StartMinutesVal
    /\ row.End_Minute = row.Start_Minute + TaskOfRow(row).duration_minutes
    /\ row.End_Minute <= EndMinutesVal

(* C3. Window containment: every row appended so far and every row         *)
(* returned starts at or after the daily start, ends exactly its task's    *)
(* duration later, and ends at or before the daily end.                    *)
C3_WindowContainment ==
    /\ \A i \in DOMAIN schedule_entries : InWindow(schedule_entries[i])
    /\ \A i \in DOMAIN Rows : InWindow(Rows[i])

\* a returned schedule built through a failed attempt, a cursor reset and
\* a later placement on the reset day.
C3_Witness ==
    /\ RanToEnd
    /\ UnplacedReports # <<>>
    /\ SomeOverlapSameDay

Eligible(row) ==
    LET task == TaskOfRow(row)
    IN  IF task.class_type = "Theory" THEN row.Room \in Range(classrooms)
        ELSE IF task.assigned_room = AnyLab THEN row.Room \in Range(labs)
        ELSE row.Room = task.assigned_room /\ row.Room \in Range(labs)

(* C4. Eligibility: a Theory row is in a classroom of the pool, an 'Any    *)
(* Available Lab' row is in a lab of the pool, and a row of a task naming  *)
(* a specific lab is in that lab, which is a member of the lab pool.       *)
C4_Eligibility == Returned => \A i \in DOMAIN Rows : Eligible(Rows[i])

----------------------------------------------------------------------------
(* Determinism.  A second run on the same inputs is the run whose shuffle   *)
(* leaves the expanded order (RunInGivenOrder of the expanded tasks).      *)

\* task -> (day, start minute, room); the tasks without an image are the unplaced ones.
Mapping(rows) ==
    {<<rows[i].Component_ID, rows[i].Day, rows[i].Start_Minute, rows[i].Room>> : i \in DOMAIN rows}

(* C5. Two runs on the same components, rooms, working days and window     *)
(* yield the same task -> (day, start, room) mapping, hence the same       *)
(* unplaced tasks.                                                         *)
C5_Determinism ==
    RanToEnd => Mapping(Rows) = Mapping(RunInGivenOrder(ExpandTasks(class_components)).entries)

----------------------------------------------------------------------------
(* Completeness when trivially feasible.                                   *)

Expanded == ExpandTasks(class_components)
WindowLength == EndMinutesVal - StartMinutesVal
DurationOf == [i \in DOMAIN Expanded |-> Expanded[i].duration_minutes]
Demand(S) == SumOver(S, DurationOf)
RoomMinutes(n) == n * Len(working_days) * WindowLength

TheoryTasks == {i \in DOMAIN Expanded : Expanded[i].class_type = "Theory"}
LabTasks == {i \in DOMAIN Expanded : Expanded[i].class_type = "Lab"}
TasksNaming(lab) == {i \in LabTasks : Expanded[i].assigned_room = lab}
NamedLabs == {Expanded[i].assigned_room : i \in LabTasks} \ {AnyLab}
TasksOfSection(sem, sec) ==
    {i \in DOMAIN Expanded : Expanded[i].semester = sem /\ Expanded[i].section = sec}

\* the tasks S can be held one after another within the working days.
FitsSequentially(S) ==
    \E f \in [S -> DOMAIN working_days] :
        \A d \in DOMAIN working_days : Demand({i \in S : f[i] = d}) <= WindowLength

TriviallyFeasible ==
    /\ InputErrorText = None
    /\ RoomMinutes(Len(classrooms)) >= 2 * Demand(TheoryTasks)
    /\ RoomMinutes(Len(labs)) >= 2 * Demand(LabTasks)
    /\ \A lab \in NamedLabs :
          lab \in Range(labs) /\ RoomMinutes(1) >= 2 * Demand(TasksNaming(lab))
    /\ \A i \in DOMAIN Expanded :
          FitsSequentially(TasksOfSection(Expanded[i].semester, Expanded[i].section))

(* C6. With at least twice the demanded room-minutes in every required     *)
(* room category and every section's demand fitting sequentially in the    *)
(* week, every task is placed and none is reported unplaced.               *)
C6_CompleteWhenFeasible ==
    (Returned /\ TriviallyFeasible)
        => (UnplacedReports = <<>> /\ Len(Rows) = Len(Expanded))

----------------------------------------------------------------------------
(* Every task is accounted for.                                            *)

RowsOfTask(rows, id) == {i \in DOMAIN rows : rows[i].Component_ID = id}
TasksOfKey(code, sec) ==
    {i \in DOMAIN tasks_to_schedule :
        tasks_to_schedule[i].course_code = code /\ tasks_to_schedule[i].section = sec}
RowsOfKey(rows, code, sec) ==
    {i \in DOMAIN rows : rows[i].Course_Code = code /\ rows[i].Section = sec}
ReportsOfKey(code, sec) ==
    {i \in DOMAIN UnplacedReports :
        UnplacedReports[i].text = <<"Could not place task", code, sec>>}
Processed == IF pc = "loop" THEN (task_idx - 1) + (IF assigned THEN 1 ELSE 0) ELSE 0

(* C7. After a run each expanded task has exactly one row or exactly one   *)
(* 'Could not place task' report, never both and never neither; while the  *)
(* loop runs every task before the current one has one or the other, so an *)
(* unplaced task does not stop the tasks after it from being attempted.    *)
C7_EveryTaskAccounted ==
    /\ pc = "loop" => Len(schedule_entries) + Len(UnplacedReports) = Processed
    /\ RanToEnd =>
        /\ Len(tasks_to_schedule) = Len(Expanded)
        /\ \A i \in DOMAIN Rows :
              \E j \in DOMAIN tasks_to_schedule :
                  tasks_to_schedule[j].task_id = Rows[i].Component_ID
        /\ \A j \in DOMAIN tasks_to_schedule :
              LET t == tasks_to_schedule[j]
              IN  /\ Cardinality(RowsOfTask(Rows, t.task_id)) <= 1
                  /\ Cardinality(TasksOfKey(t.course_code, t.section))
                        = Cardinality(RowsOfKey(Rows, t.course_code, t.section))
                          + Cardinality(ReportsOfKey(t.course_code, t.section))

\* a run in which a task was reported unplaced and a task after it was placed.
C7_Witness ==
    /\ RanToEnd
    /\ \E i, j \in DOMAIN tasks_to_schedule :
          /\ i < j
          /\ RowsOfTask(Rows, tasks_to_schedule[i].task_id) = {}
          /\ RowsOfTask(Rows, tasks_to_schedule[j].task_id) # {}
          /\ ReportsOfKey(tasks_to_schedule[i].course_code, tasks_to_schedule[i].section) # {}

----------------------------------------------------------------------------
(* Termination.                                                            *)

\* an upper bound on the steps left, from the position in the body.
StepsLeft ==
    LET perTask == Len(working_days) + 1
    IN  CASE pc = "start" -> Len(Expanded) * perTask + 4
          [] pc = "expand" -> Len(Expanded) * perTask + 3
          [] pc = "shuffle" -> Len(tasks_to_schedule) * perTask + 2
          [] pc = "loop" -> (Len(tasks_to_schedule) + 1 - task_idx) * perTask - attempt + 1
          [] OTHER -> 0

\* the body has a next step to take: the guard of one of its steps holds.
CanStep ==
    \/ pc \in {"start", "expand", "shuffle"}
    \/ InnerLoopRunning
    \/ InnerLoopOver
    \/ LoopOver

(* C8. Every run terminates and returns: until it has returned a step is   *)
(* always possible, every step lowers the natural number StepsLeft, once   *)
(* returned there is a result, and no task makes more than |working_days|  *)
(* placement attempts.                                                     *)
C8_Termination ==
    /\ [](StepsLeft >= 0 /\ attempt <= Len(working_days))
    /\ [](Returned \/ CanStep)
    /\ [](Returned => result # NotReturned)
    /\ [][StepsLeft' < StepsLeft]_vars

\* a returned run in which an unplaced task used all |working_days| attempts.
C8_Witness ==
    /\ RanToEnd
    /\ Len(working_days) > 1
    /\ UnplacedReports # <<>>
    /\ Rows # <<>>

----------------------------------------------------------------------------
(* InputError short-circuit.                                               *)

InputErrorCase ==
    \/ working_days = <<>>
    \/ needs_theory_room /\ classrooms = <<>>
    \/ needs_lab_room_any /\ labs = <<>>

(* C9. With zero working days, or a Theory component and no classroom, or  *)
(* an 'Any Available Lab' component and no lab, the run reports an error,  *)
(* expands and places nothing, and returns an empty schedule.              *)
C9_InputErrorShortCircuit ==
    InputErrorCase =>
        /\ pc \in {"start", "done"}
        /\ tasks_to_schedule = <<>>
        /\ schedule_entries = <<>>
        /\ Returned => (result = <<>> /\ Len(ErrorReports) = 1 /\ Len(messages) = 1)

\* the last of the three checks fired: days and classrooms are fine, labs are missing.
C9_Witness ==
    /\ Returned
    /\ working_days # <<>>
    /\ ~(needs_theory_room /\ classrooms = <<>>)
    /\ needs_lab_room_any /\ labs = <<>>
    /\ ErrorReports # <<>>

----------------------------------------------------------------------------
(* A specific lab that is not in the lab pool.                             *)

MissingLabs ==
    {class_components[i].assigned_room : i \in DOMAIN class_components}
        \ ({None, AnyLab} \cup Range(labs))

(* C10. A Lab component naming a specific lab that is not in the lab pool  *)
(* makes the run report an error before any placement: nothing is placed   *)
(* and no returned row names that lab.                                     *)
C10_MissingSpecificLabIsInputError ==
    MissingLabs # {} =>
        /\ schedule_entries = <<>>
        /\ Returned =>
              /\ ErrorReports # <<>>
              /\ result = <<>>
              /\ \A i \in DOMAIN Rows : Rows[i].Room \notin MissingLabs

----------------------------------------------------------------------------
(* Single-task placement.                                                  *)

EligiblePool(task) ==
    IF task.class_type = "Theory" THEN Range(classrooms)
    ELSE IF task.assigned_room = AnyLab THEN Range(labs)
    ELSE {task.assigned_room} \cap Range(labs)

SingleTaskCase ==
    /\ InputErrorText = None
    /\ Len(class_components) = 1
    /\ Len(Expanded) = 1
    /\ Expanded[1].duration_minutes <= WindowLength
    /\ EligiblePool(Expanded[1]) # {}

(* C11. Single-task placement: a catalog of exactly one task whose         *)
(* duration fits in the daily window and whose eligible pool is not empty  *)
(* returns exactly one row, on the first working day, starting at the      *)
(* window start, labelled with its start and end time, in a room of the    *)
(* eligible pool, and reports nothing unplaced.                            *)
C11_SingleTaskPlacement ==
    (RanToEnd /\ SingleTaskCase) =>
        /\ Len(Rows) = 1
        /\ UnplacedReports = <<>>
        /\ Rows[1].Component_ID = Expanded[1].task_id
        /\ Rows[1].Day = working_days[1]
        /\ Rows[1].Start_Minute = StartMinutesVal
        /\ Rows[1].End_Minute = StartMinutesVal + Expanded[1].duration_minutes
        /\ Rows[1].Time_Slot = <<start_time_obj.hour, start_time_obj.minute,
                                 Rows[1].End_Minute \div 60, Rows[1].End_Minute % 60>>
        /\ Rows[1].Room \in EligiblePool(Expanded[1])

\* the single task is a Lab session naming a lab of the pool, with two working days.
C11_Witness ==
    /\ RanToEnd
    /\ SingleTaskCase
    /\ Len(working_days) = 2
    /\ Expanded[1].class_type = "Lab"
    /\ Expanded[1].assigned_room # AnyLab
    /\ Len(Rows) = 1

----------------------------------------------------------------------------
(* Section-forced infeasibility.                                           *)

\* one working day, two tasks of one (semester, section) and one duration,
\* and a window that holds one session of that duration but not two.
SectionForcedCase ==
    /\ InputErrorText = None
    /\ Len(working_days) = 1
    /\ Len(Expanded) = 2
    /\ Expanded[1].semester = Expanded[2].semester
    /\ Expanded[1].section = Expanded[2].section
    /\ Expanded[1].duration_minutes = Expanded[2].duration_minutes
    /\ Expanded[1].duration_minutes <= WindowLength
    /\ WindowLength < 2 * Expanded[1].duration_minutes
    /\ \A i \in DOMAIN Expanded : EligiblePool(Expanded[i]) # {}

(* C12. Section-forced infeasibility: with one working day, a window that  *)
(* holds only one session of the duration, and two tasks of the same       *)
(* (semester, section), the run returns exactly one row, that of the task  *)
(* processed first, and reports exactly the other task unplaced.           *)
C12_SectionForcedInfeasibility ==
    (RanToEnd /\ SectionForcedCase) =>
        /\ Len(Rows) = 1
        /\ Rows[1].Component_ID = tasks_to_schedule[1].task_id
        /\ Len(UnplacedReports) = 1
        /\ UnplacedReports[1] = UnplacedWarning(tasks_to_schedule[2])

\* the two tasks come from two components and the second one was processed first.
C12_Witness ==
    /\ RanToEnd
    /\ SectionForcedCase
    /\ Len(class_components) = 2
    /\ tasks_to_schedule[1] = Expanded[2]
    /\ Len(Rows) = 1

----------------------------------------------------------------------------
(* Where a task starts, and on which day.  schedule_entries holds the rows *)
(* in the order they were placed.                                          *)

EarlierOn(j, day) == {i \in 1..(j - 1) : schedule_entries[i].Day = day}

\* the end minute of the latest booking placed on `day` before row j.
LatestEnd(j, day) ==
    CHOOSE e \in {schedule_entries[i].End_Minute : i \in EarlierOn(j, day)} :
        \A i \in EarlierOn(j, day) : schedule_entries[i].End_Minute <= e

TwoSessionsFillTheDay ==
    /\ InputErrorText = None
    /\ Len(working_days) = 1
    /\ Len(Expanded) = 2
    /\ Expanded[1].duration_minutes + Expanded[2].duration_minutes = WindowLength
    /\ \A i \in DOMAIN Expanded : EligiblePool(Expanded[i]) # {}

(* C16. Back-to-back placement with no implicit buffer: every placed row   *)
(* starts at the daily window start or exactly at the end minute of the    *)
(* latest booking placed earlier on its day, and two sessions whose        *)
(* durations sum to the window length are both placed on one working day.  *)
C16_BackToBackNoBuffer ==
    /\ \A j \in DOMAIN schedule_entries :
          LET row == schedule_entries[j]
          IN  \/ row.Start_Minute = StartMinutesVal
              \/ /\ EarlierOn(j, row.Day) # {}
                 /\ row.Start_Minute = LatestEnd(j, row.Day)
    /\ (RanToEnd /\ TwoSessionsFillTheDay) => Len(Rows) = 2

\* the task of row j would fit on `day` after the bookings placed there before it.
WouldFitOn(j, day) ==
    LET free == IF EarlierOn(j, day) = {} THEN StartMinutesVal ELSE LatestEnd(j, day)
    IN  free + (schedule_entries[j].End_Minute - schedule_entries[j].Start_Minute)
            <= EndMinutesVal

(* C17. Candidate order: the days are tried in working_days order from the *)
(* first working day, so no row is placed on a working day when its task   *)
(* would fit on an earlier working day.                                    *)
C17_CandidateOrder ==
    \A j \in DOMAIN schedule_entries :
        \A e \in 1..(Index(working_days, schedule_entries[j].Day) - 1) :
            ~WouldFitOn(j, working_days[e])

----------------------------------------------------------------------------
(* Task expansion.                                                         *)

ExpansionDone == pc \in {"shuffle", "loop"} \/ RanToEnd

\* the tasks of session k of the section at position s of component i.
TasksFor(i, s, k) ==
    LET comp == class_components[i]
    IN  {j \in DOMAIN tasks_to_schedule :
            /\ tasks_to_schedule[j].task_id = task_id(comp, comp.sections[s], k)
            /\ tasks_to_schedule[j].section = comp.sections[s]
            /\ tasks_to_schedule[j].course_code = comp.course_code
            /\ tasks_to_schedule[j].semester = comp.semester
            /\ tasks_to_schedule[j].duration_minutes = comp.duration_minutes
            /\ tasks_to_schedule[j].class_type = comp.class_type
            /\ tasks_to_schedule[j].assigned_room = comp.assigned_room}

(* C18. Task expansion: the task list holds exactly one task for every     *)
(* (component, section, session index) with session index in               *)
(* 0..sessions_per_week-1 and no other task, so its length is the sum over *)
(* the components of |sections| x sessions_per_week; each task carries its *)
(* component's duration, type and room requirement; and the task           *)
(* identifiers are pairwise distinct.                                      *)
C18_TaskExpansion ==
    ExpansionDone =>
        /\ Len(tasks_to_schedule) = TaskCount(class_components)
        /\ \A i \in DOMAIN class_components :
              \A s \in DOMAIN class_components[i].sections :
                  \A k \in 0..(class_components[i].sessions_per_week - 1) :
                      Cardinality(TasksFor(i, s, k)) = 1
        /\ \A j \in DOMAIN tasks_to_schedule :
              \E i \in DOMAIN class_components :
                  \E s \in DOMAIN class_components[i].sections :
                      \E k \in 0..(class_components[i].sessions_per_week - 1) :
                          j \in TasksFor(i, s, k)
        /\ \A j1, j2 \in DOMAIN tasks_to_schedule :
              j1 # j2 => tasks_to_schedule[j1].task_id # tasks_to_schedule[j2].task_id

\* two components, one of them for two sections of which one has an underscore
\* in its name, expanded to three tasks and shuffled into another order.
C18_Witness ==
    /\ pc = "loop"
    /\ Len(class_components) = 2
    /\ \E i \in DOMAIN class_components : class_components[i].sections = <<"A_0", "A">>
    /\ Len(tasks_to_schedule) = 3
    /\ tasks_to_schedule # ExpandTasks(class_components)

----------------------------------------------------------------------------
(* Result ordering.                                                        *)

\* position of the day in working_days.
DayPosition(row) == CHOOSE d \in DOMAIN working_days : working_days[d] = row.Day

\* the claimed key; names are ranked in their string order.
OrderKey(row) ==
    <<Index(SemesterNames, row.Semester), DayPosition(row), row.Start_Minute,
      Index(SectionNames, row.Section), Index(CourseCodes, row.Course_Code)>>

NotAfter(k1, k2) ==
    \/ k1 = k2
    \/ \E i \in DOMAIN k1 : k1[i] < k2[i] /\ \A h \in 1..(i - 1) : k1[h] = k2[h]

(* C20. Result ordering: the returned rows are in non-decreasing order of  *)
(* the key (Semester, position of Day in working_days, Start_Minute,       *)
(* Section, Course Code), whatever the order the tasks were placed in.     *)
C20_ResultOrdering ==
    Returned =>
        \A i, j \in DOMAIN Rows : i < j => NotAfter(OrderKey(Rows[i]), OrderKey(Rows[j]))

\* rows of both semesters and both days, returned in another order than placed.
C20_Witness ==
    /\ RanToEnd
    /\ Len(Rows) = 3
    /\ Rows # schedule_entries
    /\ working_days[1] = "Monday"
    /\ {Rows[i].Semester : i \in DOMAIN Rows} = Range(SemesterNames)
    /\ {Rows[i].Day : i \in DOMAIN Rows} = Range(working_days)

----------------------------------------------------------------------------
(* Defensive expansion.                                                    *)

HasDegenerate == \E i \in DOMAIN class_components : Degenerate(class_components[i])

----------------------------------------------------------------------------
(* The session's catalog and the stored schedule.                          *)

Catalog == <<semesters, sections, class_components, classrooms, labs>>

(* C13. Cached-result invalidation: every step that changes the catalog    *)
(* (classrooms, labs, semesters, sections, class components) leaves        *)
(* schedule_df None, and a schedule_df that is None stays None until a     *)
(* 'Create Routine' step stores a schedule.                                *)
C13_CachedResultInvalidation ==
    [][/\ (Catalog' # Catalog) => (schedule_df' = None)
       /\ (schedule_df = None /\ schedule_df' # None) => CreateRoutine]_vars

\* two components and rooms were entered and one more catalog change is
\* possible, with no schedule stored.
C13_Witness ==
    /\ schedule_df = None
    /\ ready_to_generate
    /\ Len(class_components) = 2
    /\ classrooms # <<>>
    /\ labs # <<>>
    /\ working_days # <<>>

----------------------------------------------------------------------------
(* Component lifecycle.                                                    *)

Lifecycle(comp) ==
    /\ comp.semester \in Range(semesters)
    /\ comp.semester \in DOMAIN sections
    /\ comp.sections # <<>>
    /\ Range(comp.sections) \subseteq Range(sections[comp.semester])

\* a step that removes semesters keeps exactly the components of the others.
SemesterRule ==
    (Range(semesters') # Range(semesters) /\ Range(semesters') \subseteq Range(semesters))
        => class_components' =
              SelectSeq(class_components, LAMBDA c : c.semester \in Range(semesters'))

\* a step that removes sections of a semester keeps the components of the other
\* semesters as they are and those of the semester that have a section left,
\* with that section list.
SectionRule ==
    \A sem \in Range(semesters) \cap Range(semesters') :
        LET gone == Range(sections[sem]) \ Range(sections'[sem])
            left(c) == SelectSeq(c.sections, LAMBDA x : x \notin gone)
            kept == SelectSeq(class_components,
                              LAMBDA c : c.semester # sem \/ left(c) # <<>>)
        IN  gone # {} =>
                /\ Len(class_components') = Len(kept)
                /\ \A i \in DOMAIN kept :
                      class_components'[i] =
                          IF kept[i].semester = sem
                          THEN [kept[i] EXCEPT !.sections = left(kept[i])]
                          ELSE kept[i]

(* C14. Component lifecycle: every stored component has a semester of the  *)
(* semesters list and a non-empty section list within that semester's      *)
(* current sections; a step that removes a semester deletes exactly its    *)
(* components, and a step that removes sections deletes exactly the        *)
(* components of that semester left with no section.                       *)
C14_ComponentLifecycle ==
    /\ [](\A i \in DOMAIN class_components : Lifecycle(class_components[i]))
    /\ [][SemesterRule /\ SectionRule]_vars

\* components of two semesters, the first of them entered after the component
\* with the lower id was deleted, holding the only section left of its semester.
C14_Witness ==
    /\ Len(class_components) = 2
    /\ class_components[1].id = 2
    /\ class_components[1].semester # class_components[2].semester
    /\ class_components[1].sections = <<"B">>
    /\ sections[class_components[1].semester] = <<"B">>

----------------------------------------------------------------------------
(* Specific-room validity.                                                 *)

NamesSpecificLab(comp) ==
    comp.class_type = "Lab" /\ comp.assigned_room \notin {None, AnyLab}

(* C15. Specific-room validity: every stored Lab component whose           *)
(* assigned_room is a specific lab name names a lab that is in the lab     *)
(* pool.                                                                   *)
C15_SpecificRoomValidity ==
    \A i \in DOMAIN class_components :
        NamesSpecificLab(class_components[i])
            => class_components[i].assigned_room \in Range(labs)

----------------------------------------------------------------------------
(* Total output order.                                                     *)

\* the five columns of the final sort (lines 174-180).
SameSortColumns(r1, r2) ==
    /\ r1.Semester = r2.Semester
    /\ r1.Day = r2.Day
    /\ r1.Start_Minute = r2.Start_Minute
    /\ r1.Section = r2.Section
    /\ r1.Course_Code = r2.Course_Code

\* the position of a task identifier among the identifiers of the run; the
\* catalogs of Init have one-digit component ids, one-letter section names in
\* alphabetical order and one-digit session numbers, so the expansion order
\* of the identifiers is their string order.
TaskIdRank(id) ==
    CHOOSE k \in DOMAIN Expanded : Expanded[k].task_id = id

(* C21. Total output order: rows of the returned schedule that tie on      *)
(* (semester, day order, start minute, section, course code) appear in     *)
(* the order of their task identifiers, so the row sequence does not       *)
(* depend on the order in which the tasks were processed.                  *)
C21_TotalOutputOrder ==
    RanToEnd =>
        \A i, j \in DOMAIN Rows :
            (i < j /\ SameSortColumns(Rows[i], Rows[j]))
                => TaskIdRank(Rows[i].Component_ID) < TaskIdRank(Rows[j].Component_ID)

----------------------------------------------------------------------------
(* Round-robin room choice.                                                *)

\* the pool a row's room was drawn from (lines 120-132); a Lab row with a
\* specific assigned room is drawn from no pool.
PoolOfRow(row) ==
    IF row.Type = "Theory" THEN classrooms
    ELSE IF TaskOfRow(row).assigned_room = AnyLab THEN labs
    ELSE <<>>

\* rows i < j of the placement list are consecutive placements of one room
\* category on one working day.
ConsecutiveOnDay(i, j) ==
    /\ i < j
    /\ schedule_entries[i].Day = schedule_entries[j].Day
    /\ PoolOfRow(schedule_entries[i]) # <<>>
    /\ PoolOfRow(schedule_entries[i]) = PoolOfRow(schedule_entries[j])
    /\ \A k \in DOMAIN schedule_entries :
        (i < k /\ k < j /\ schedule_entries[k].Day = schedule_entries[i].Day)
            => PoolOfRow(schedule_entries[k]) # PoolOfRow(schedule_entries[i])

(* C22. Round-robin room choice with a per-day counter: of two             *)
(* consecutive placements of the same room category (Theory, or Lab with   *)
(* 'Any Available Lab') on the same working day, the later one receives    *)
(* the pool member that cyclically follows the earlier one's room.         *)
C22_RoundRobinPerDay ==
    \A i, j \in DOMAIN schedule_entries :
        ConsecutiveOnDay(i, j) =>
            LET pool == PoolOfRow(schedule_entries[i])
            IN  Index(pool, schedule_entries[j].Room)
                    = (Index(pool, schedule_entries[i].Room) % Len(pool)) + 1

----------------------------------------------------------------------------
(* Read-only snapshot.                                                     *)

(* C23. Read-only snapshot: no step of a run changes the component list    *)
(* (sections included), the classroom pool, the lab pool, the working      *)
(* days or the window, whether the run succeeds, places partially or       *)
(* returns early with an error.                                            *)
C23_ReadOnlySnapshot ==
    [][inputs' = inputs]_vars

\* a run that shuffled its task list out of expansion order, placed some
\* tasks, reported others and returned.
C23_Witness ==
    /\ RanToEnd
    /\ Len(class_components) = 2
    /\ tasks_to_schedule # Expanded
    /\ Rows # <<>>
    /\ UnplacedReports # <<>>

----------------------------------------------------------------------------
(* Conflict-free while no attempt overflows.                               *)

InLoopOrAfter == pc \in {"loop", "done"} /\ InputErrorText = None

\* line 112 counts every pass of the inner loop in the first day's counter;
\* pass k (from 0) looks at working day k % len(working_days) (lines 110-111).
AttemptsSoFar == day_index_counter[working_days[1]]
AttemptsOn(day) ==
    Cardinality({k \in 0..(AttemptsSoFar - 1) :
                    working_days[(k % Len(working_days)) + 1] = day})
RowsOn(day) == {i \in DOMAIN schedule_entries : schedule_entries[i].Day = day}

\* after the input validation a room is always found for the catalogs of
\* Init (line 118), so a pass without a row is a pass that ran past the daily
\* end and reset the day's cursor (lines 159-160).
NeverOverflowed(day) == AttemptsOn(day) = Cardinality(RowsOn(day))

Separated(r1, r2) ==
    \/ r1.End_Minute + Buffer <= r2.Start_Minute
    \/ r2.End_Minute + Buffer <= r1.Start_Minute

(* C25. Conflict-free while no attempt overflows: at every point of a      *)
(* run, on every working day whose cursor was never reset by an            *)
(* overflowing attempt, all rows placed so far are pairwise separated by   *)
(* at least 5 minutes whatever their room or section; a run in which no    *)
(* attempt overflows returns no two rows of one day that overlap.          *)
C25_ConflictFreeWithoutOverflow ==
    InLoopOrAfter =>
        /\ \A day \in Range(working_days) :
              NeverOverflowed(day) =>
                  \A i, j \in RowsOn(day) :
                      i # j => Separated(schedule_entries[i], schedule_entries[j])
        /\ (RanToEnd /\ \A day \in Range(working_days) : NeverOverflowed(day))
              => ~SomeOverlapSameDay

\* three rows placed without any overflow, two of them on the same day.
C25_Witness ==
    /\ RanToEnd
    /\ \A day \in Range(working_days) : NeverOverflowed(day)
    /\ Len(Rows) = 3
    /\ \E day \in Range(working_days) : Cardinality(RowsOn(day)) >= 2

----------------------------------------------------------------------------
(* Stored schedule and current calendar.                                   *)

StoredRows == IF schedule_df = None THEN <<>> ELSE schedule_df

(* C24. Stored schedule matches the current calendar: whenever a           *)
(* non-empty schedule is stored, after any sequence of handler steps       *)
(* including changes of the working days and of the start and end times,   *)
(* every row's Day is a currently configured working day and every row's   *)
(* interval lies within the current window.                                *)
C24_StoredScheduleMatchesCalendar ==
    \A i \in DOMAIN StoredRows :
        /\ StoredRows[i].Day \in Range(working_days)
        /\ StoredRows[i].Start_Minute >= StartMinutesVal
        /\ StoredRows[i].End_Minute <= EndMinutesVal

----------------------------------------------------------------------------
(* Guard agreement.                                                        *)

\* a step that stores a frame, which only the 'Create Routine' handler does.
StoresSchedule ==
    /\ schedule_df' # None
    /\ (schedule_df = None \/ schedule_df' # schedule_df)

(* C26. Guard agreement: ready_to_generate is true exactly when the input  *)
(* validation of generate_schedule_from_components passes, and every step  *)
(* that stores a schedule starts from inputs that pass it, so a run        *)
(* started from the enabled button never takes an early error return.      *)
C26_GuardAgreement ==
    /\ [](ready_to_generate <=> (InputErrorText = None))
    /\ [][StoresSchedule => InputErrorText = None]_vars

\* a schedule stored from the enabled button for a Lab component that asks
\* for any available lab.
C26_Witness ==
    /\ ready_to_generate
    /\ needs_lab_room_any
    /\ schedule_df # None
    /\ schedule_df # <<>>

====
